---- MODULE Spec2Model ----
(***************************************************************************)
(* A model of pi-watch: the AI-comment grammar and grouper of core.ts, the *)
(* CommentWatcher state machine driven by the file-change notifier, and    *)
(* the MockFSWatcher notifier of the CommentWatcher tests.                 *)
(*                                                                         *)
(* Text is modelled as sequences of one-character strings, so that trim,   *)
(* split and the two regular expressions of COMMENT_PATTERNS are computed  *)
(* character by character as the code computes them.                       *)
(***************************************************************************)
EXTENDS Integers, Sequences, FiniteSets, TLC

(***************************************************************************)
(* Characters                                                              *)
(***************************************************************************)

UpperCase == <<"A", "B", "C", "D", "E", "F", "G", "H", "I", "J", "K", "L", "M",
               "N", "O", "P", "Q", "R", "S", "T", "U", "V", "W", "X", "Y", "Z">>

LowerCase == <<"a", "b", "c", "d", "e", "f", "g", "h", "i", "j", "k", "l", "m",
               "n", "o", "p", "q", "r", "s", "t", "u", "v", "w", "x", "y", "z">>

\* String.prototype.toLowerCase on one (ASCII) character.
ToLowerChar(c) ==
    IF \E k \in DOMAIN UpperCase : UpperCase[k] = c
    THEN LowerCase[CHOOSE k \in DOMAIN UpperCase : UpperCase[k] = c]
    ELSE c

\* String.prototype.toLowerCase.
ToLowerCase(s) == [k \in DOMAIN s |-> ToLowerChar(s[k])]

\* The characters \s and trim() treat as white space (those of the model's text).
IsSpace(c) == c \in {" ", "\t", "\n", "\r", "\f"}

\* The characters "." does not match.
IsLineTerminator(c) == c \in {"\n", "\r"}

\* The character class [:\s].
IsColonOrSpace(c) == c = ":" \/ IsSpace(c)

\* The characters s[from..to] (empty when from > to).
Slice(s, from, to) == SubSeq(s, from, to)

\* Every character of s[from..to] satisfies the class test.
AllSpace(s, from, to) == \A k \in from..to : IsSpace(s[k])
AllColonOrSpace(s, from, to) == \A k \in from..to : IsColonOrSpace(s[k])
NoLineTerminator(s, from, to) == \A k \in from..to : ~IsLineTerminator(s[k])

\* String.prototype.trim.
Trim(s) ==
    IF AllSpace(s, 1, Len(s)) THEN <<>>
    ELSE LET first == CHOOSE k \in 1..Len(s) :
                          ~IsSpace(s[k]) /\ AllSpace(s, 1, k - 1)
             last  == CHOOSE k \in 1..Len(s) :
                          ~IsSpace(s[k]) /\ AllSpace(s, k + 1, Len(s))
         IN  Slice(s, first, last)

\* String.prototype.includes(needle).
Includes(s, needle) ==
    \E k \in 1..(Len(s) - Len(needle) + 1) :
        Slice(s, k, k + Len(needle) - 1) = needle

(***************************************************************************)
(* core.ts: COMMENT_PATTERNS and parseAIComment                            *)
(***************************************************************************)

\* The length of the comment marker (?:#|\/\/|--) at the start of t, 0 if none.
PrefixLen(t) ==
    IF Len(t) >= 1 /\ t[1] = "#" THEN 1
    ELSE IF Len(t) >= 2 /\ t[1] = "/" /\ t[2] = "/" THEN 2
    ELSE IF Len(t) >= 2 /\ t[1] = "-" /\ t[2] = "-" THEN 2
    ELSE 0

\* "ai" stands at t[k], t[k+1], compared as the i flag compares.
AIAt(t, k) ==
    /\ k >= 1
    /\ k + 1 <= Len(t)
    /\ ToLowerChar(t[k]) = "a"
    /\ ToLowerChar(t[k + 1]) = "i"

\* t[from..to] matches \s*(.+?)\s* : a non-empty run without line
\* terminators, with white space only before and after it.
FreeTextBetween(t, from, to) ==
    \E j \in from..to : \E k \in j..to :
        /\ NoLineTerminator(t, j, k)
        /\ AllSpace(t, from, j - 1)
        /\ AllSpace(t, k + 1, to)

\* Mutant: the pattern ends with \s*$ in place of \s*[:\s]*$.
MatchesAIAtEndNoColon(t) ==
    LET p == PrefixLen(t)
    IN  /\ p > 0
        /\ \E k \in (p + 2)..(Len(t) - 1) :
              /\ AIAt(t, k)
              /\ FreeTextBetween(t, p + 1, k - 1)
              /\ \/ AllSpace(t, k + 2, Len(t))
                 \/ /\ k + 2 <= Len(t)
                    /\ t[k + 2] = "!"
                    /\ AllSpace(t, k + 3, Len(t))

\* COMMENT_PATTERNS[0]: /^(?:#|\/\/|--)\s*(.+?)\s*(?:ai!|ai)\s*[:\s]*$/i
MatchesAIAtEnd(t) ==
    LET p == PrefixLen(t)
    IN  /\ p > 0
        /\ \E k \in (p + 2)..(Len(t) - 1) :
              /\ AIAt(t, k)
              /\ FreeTextBetween(t, p + 1, k - 1)
              /\ \/ AllColonOrSpace(t, k + 2, Len(t))
                 \/ /\ k + 2 <= Len(t)
                    /\ t[k + 2] = "!"
                    /\ AllColonOrSpace(t, k + 3, Len(t))

\* COMMENT_PATTERNS[1]: /^(?:#|\/\/|--)\s*(?:ai!|ai)[:\s]*\s*(.+)$/i
MatchesAIAtStart(t) ==
    LET p == PrefixLen(t)
    IN  /\ p > 0
        /\ \E k \in (p + 1)..(Len(t) - 1) :
              /\ AllSpace(t, p + 1, k - 1)
              /\ AIAt(t, k)
              /\ \E z \in (k + 2)..Len(t) :
                    /\ NoLineTerminator(t, z, Len(t))
                    /\ \/ AllColonOrSpace(t, k + 2, z - 1)
                       \/ /\ k + 2 <= z - 1
                          /\ t[k + 2] = "!"
                          /\ AllColonOrSpace(t, k + 3, z - 1)

\* A value that may be null: <<>> is null, <<v>> is the value v.
Null == <<>>
Some(v) == <<v>>
Get(opt) == opt[1]

\* Mutant: includes("ai!") on the line as written, not on its lower case.
parseAICommentCaseSensitive(line) ==
    LET trimmedLine == Trim(line)
    IN  IF MatchesAIAtEnd(trimmedLine) \/ MatchesAIAtStart(trimmedLine)
        THEN Some(Includes(trimmedLine, <<"a", "i", "!">>))
        ELSE Null

\* parseAIComment: null, or the hasTrigger flag.
parseAIComment(line) ==
    LET trimmedLine == Trim(line)
    IN  IF MatchesAIAtEnd(trimmedLine) \/ MatchesAIAtStart(trimmedLine)
        THEN Some(Includes(ToLowerCase(trimmedLine), <<"a", "i", "!">>))
        ELSE Null

\* Array.prototype.some over the patterns of ignoredPatterns, each a regular
\* expression without anchors: a sequence of atoms, "." matching any character
\* but a line terminator and [lit |-> c] matching the character c.
AnyChar == [any |-> TRUE]
Lit(c) == [lit |-> c]

AtomMatches(atom, c) ==
    IF "any" \in DOMAIN atom THEN ~IsLineTerminator(c) ELSE atom.lit = c

\* RegExp.prototype.test of an unanchored pattern.
PatternTest(pattern, s) ==
    \E k \in 1..(Len(s) - Len(pattern) + 1) :
        \A j \in 1..Len(pattern) : AtomMatches(pattern[j], s[k + j - 1])

\* Mutant: every in place of some.
shouldIgnorePathEvery(filePath, ignoredPatterns) ==
    \A k \in DOMAIN ignoredPatterns : PatternTest(ignoredPatterns[k], filePath)

shouldIgnorePath(filePath, ignoredPatterns) ==
    \E k \in DOMAIN ignoredPatterns : PatternTest(ignoredPatterns[k], filePath)

(***************************************************************************)
(* core.ts: parseCommentsInFile                                            *)
(***************************************************************************)

\* String.prototype.split("\n"): the lines of content, at least one.
RECURSIVE SplitLines(_)
SplitLines(content) ==
    IF \A k \in 1..Len(content) : content[k] # "\n" THEN <<content>>
    ELSE LET nl == CHOOSE k \in 1..Len(content) :
                       content[k] = "\n" /\ \A j \in 1..(k - 1) : content[j] # "\n"
         IN  <<Slice(content, 1, nl - 1)>>
                 \o SplitLines(Slice(content, nl + 1, Len(content)))

\* A ParsedComment (types.ts).
ParsedComment(filePath, lineNumber, rawLines, hasTrigger) ==
    [filePath |-> filePath, lineNumber |-> lineNumber,
     rawLines |-> rawLines, hasTrigger |-> hasTrigger]

\* The loop variables of parseCommentsInFile before line 1.
ScanStart ==
    [comments |-> <<>>, currentGroup |-> <<>>, groupStartLine |-> 0,
     groupHasTrigger |-> FALSE]

\* Mutant: the group's start line is the 0-based index i of the loop.
ScanLineZeroBased(filePath, st, line, i) ==
    LET hasTrigger == parseAIComment(line)
    IN  IF hasTrigger # Null
        THEN [st EXCEPT
                 !.groupStartLine = IF Len(st.currentGroup) = 0 THEN i - 1 ELSE @,
                 !.currentGroup = Append(@, line),
                 !.groupHasTrigger = IF Get(hasTrigger) THEN TRUE ELSE @]
        ELSE IF Len(st.currentGroup) > 0
        THEN [st EXCEPT
                 !.comments = Append(@, ParsedComment(filePath, st.groupStartLine,
                                                      st.currentGroup, st.groupHasTrigger)),
                 !.currentGroup = <<>>,
                 !.groupHasTrigger = FALSE]
        ELSE st

\* Mutant: a closed group is emitted and not emptied.
ScanLineKeepsGroup(filePath, st, line, i) ==
    LET hasTrigger == parseAIComment(line)
    IN  IF hasTrigger # Null
        THEN [st EXCEPT
                 !.groupStartLine = IF Len(st.currentGroup) = 0 THEN i ELSE @,
                 !.currentGroup = Append(@, line),
                 !.groupHasTrigger = IF Get(hasTrigger) THEN TRUE ELSE @]
        ELSE IF Len(st.currentGroup) > 0
        THEN [st EXCEPT
                 !.comments = Append(@, ParsedComment(filePath, st.groupStartLine,
                                                      st.currentGroup, st.groupHasTrigger)),
                 !.groupHasTrigger = FALSE]
        ELSE st

\* Mutant: groupHasTrigger is not reset when a group is closed.
ScanLineKeepsTrigger(filePath, st, line, i) ==
    LET hasTrigger == parseAIComment(line)
    IN  IF hasTrigger # Null
        THEN [st EXCEPT
                 !.groupStartLine = IF Len(st.currentGroup) = 0 THEN i ELSE @,
                 !.currentGroup = Append(@, line),
                 !.groupHasTrigger = IF Get(hasTrigger) THEN TRUE ELSE @]
        ELSE IF Len(st.currentGroup) > 0
        THEN [st EXCEPT
                 !.comments = Append(@, ParsedComment(filePath, st.groupStartLine,
                                                      st.currentGroup, st.groupHasTrigger)),
                 !.currentGroup = <<>>]
        ELSE st

\* Mutant: the group stores the trimmed line.
ScanLineTrimmed(filePath, st, line, i) ==
    LET hasTrigger == parseAIComment(line)
    IN  IF hasTrigger # Null
        THEN [st EXCEPT
                 !.groupStartLine = IF Len(st.currentGroup) = 0 THEN i ELSE @,
                 !.currentGroup = Append(@, Trim(line)),
                 !.groupHasTrigger = IF Get(hasTrigger) THEN TRUE ELSE @]
        ELSE IF Len(st.currentGroup) > 0
        THEN [st EXCEPT
                 !.comments = Append(@, ParsedComment(filePath, st.groupStartLine,
                                                      st.currentGroup, st.groupHasTrigger)),
                 !.currentGroup = <<>>,
                 !.groupHasTrigger = FALSE]
        ELSE st

\* One iteration of the loop of parseCommentsInFile, on lines[i] (1-based).
ScanLine(filePath, st, line, i) ==
    LET hasTrigger == parseAIComment(line)
    IN  IF hasTrigger # Null
        THEN [st EXCEPT
                 !.groupStartLine = IF Len(st.currentGroup) = 0 THEN i ELSE @,
                 !.currentGroup = Append(@, line),
                 !.groupHasTrigger = IF Get(hasTrigger) THEN TRUE ELSE @]
        ELSE IF Len(st.currentGroup) > 0
        THEN [st EXCEPT
                 !.comments = Append(@, ParsedComment(filePath, st.groupStartLine,
                                                      st.currentGroup, st.groupHasTrigger)),
                 !.currentGroup = <<>>,
                 !.groupHasTrigger = FALSE]
        ELSE st

\* The loop of parseCommentsInFile over lines[1..n].
RECURSIVE ScanLines(_, _, _)
ScanLines(filePath, lines, n) ==
    IF n = 0 THEN ScanStart
    ELSE ScanLine(filePath, ScanLines(filePath, lines, n - 1), lines[n], n)

\* Mutant: the group open at the end of the file is not emitted.
parseCommentsInFileNoFinalGroup(filePath, content) ==
    LET lines == SplitLines(content)
    IN  ScanLines(filePath, lines, Len(lines)).comments

parseCommentsInFile(filePath, content) ==
    LET lines == SplitLines(content)
        st    == ScanLines(filePath, lines, Len(lines))
    IN  IF Len(st.currentGroup) > 0
        THEN Append(st.comments, ParsedComment(filePath, st.groupStartLine,
                                               st.currentGroup, st.groupHasTrigger))
        ELSE st.comments

\* Mutant: a failed read gives the result of an empty file.
readFileAndParseCommentsEmptyOnError(filePath, read) ==
    IF read = Null THEN Some([content |-> <<>>, comments |-> <<>>])
    ELSE Some([content |-> Get(read),
               comments |-> parseCommentsInFile(filePath, Get(read))])

\* readFileAndParseComments; read is what fs.readFileSync does for filePath:
\* Null when it throws, Some(content) when it returns the content.
readFileAndParseComments(filePath, read) ==
    IF read = Null THEN Null
    ELSE Some([content |-> Get(read),
               comments |-> parseCommentsInFile(filePath, Get(read))])

\* Array.prototype.filter / some on hasTrigger.
filterTriggerComments(comments) == SelectSeq(comments, LAMBDA c : c.hasTrigger)

\* Mutant: only the first block is looked at.
hasTriggerCommentFirstOnly(comments) ==
    Len(comments) > 0 /\ comments[1].hasTrigger

hasTriggerComment(comments) == \E k \in DOMAIN comments : comments[k].hasTrigger

\* String.prototype.join("\n") of the raw lines.
RECURSIVE JoinLines(_)
JoinLines(lines) ==
    IF Len(lines) = 0 THEN <<>>
    ELSE IF Len(lines) = 1 THEN lines[1]
    ELSE lines[1] \o <<"\n">> \o JoinLines(Tail(lines))

\* Mutant: the key leaves the line number out.
getCommentKeyNoLine(comment) ==
    <<comment.filePath, JoinLines(comment.rawLines)>>

\* getCommentKey: `${filePath}:${lineNumber}:${md5(rawLines.join("\n"))}`.  The
\* digest is modelled by the text it is computed from (MD5 taken as injective
\* on the texts of the model), the three parts kept apart as a tuple.
getCommentKey(comment) ==
    <<comment.filePath, comment.lineNumber, JoinLines(comment.rawLines)>>

(***************************************************************************)
(* The text of the model: lines, file contents, paths, ignore patterns     *)
(***************************************************************************)

LineAiX   == <<"/", "/", " ", "a", "i", " ", "x">>            \* // ai x
LineYAi   == <<"#", " ", "y", " ", "a", "i">>                 \* # y ai
LineCode  == <<"x", " ", "=", " ", "1">>                      \* x = 1
LineTrig  == <<"/", "/", " ", "A", "I", "!", " ", "x">>       \* // AI! x
LineYTrig == <<"-", "-", " ", "y", " ", "A", "I", "!">>       \* -- y AI!

\* No AI comment.
ContentNone    == LineCode
\* One block without trigger, at line 1.
ContentOne     == LineAiX
\* Two blocks without trigger and with the same text, at lines 1 and 3.
ContentTwo     == JoinLines(<<LineAiX, LineCode, LineAiX>>)
\* One trigger block.
ContentTrig    == LineTrig
\* Two trigger blocks, at lines 1 and 3.
ContentTrigTwo == JoinLines(<<LineTrig, LineCode, LineYTrig>>)
\* A block without trigger at line 1 and a trigger block at line 3.
ContentMixed   == JoinLines(<<LineYAi, LineCode, LineYTrig>>)

Contents ==
    {ContentNone, ContentOne, ContentTwo, ContentTrig, ContentTrigTwo, ContentMixed}

\* What fs.readFileSync may do for a changed file.
Reads == {Null} \cup {Some(c) : c \in Contents}

PathA       == <<"a", ".", "t", "s">>
PathB       == <<"b", ".", "p", "y">>
PathC       == <<"c", ".", "g", "o">>
PathIgnored == <<".", "g", "i", "t", "/", "a", ".", "t", "s">>

Paths == {PathA, PathB, PathC, PathIgnored}

\* A pattern of literal characters.
Lits(s) == [k \in DOMAIN s |-> Lit(s[k])]

\* [/.git/, /node_modules/, /dist/, /build/, /.pi/], the dots unescaped.
ignoredPatterns ==
    << <<AnyChar>> \o Lits(<<"g", "i", "t">>),
       Lits(<<"n", "o", "d", "e", "_", "m", "o", "d", "u", "l", "e", "s">>),
       Lits(<<"d", "i", "s", "t">>),
       Lits(<<"b", "u", "i", "l", "d">>),
       <<AnyChar>> \o Lits(<<"p", "i">>) >>

\* The number of subscriptions one run of the model creates.
MaxWatches == 2

(***************************************************************************)
(* State                                                                   *)
(***************************************************************************)

VARIABLES
    watcher,          \* CommentWatcher's subscription: 0 (null) or its index in subs
    subs,             \* the FSWatcherLike objects the factory has returned
    isPaused,         \* CommentWatcher's paused flag
    pendingComments,  \* CommentWatcher's PendingSet, a Map in insertion order
    event,            \* the operation or notifier event handled last
    calls,            \* the callbacks that operation invoked, in order
    before            \* history: the watcher's state when that operation began

vars == <<watcher, subs, isPaused, pendingComments, event, calls, before>>

\* The watcher's state, as the history variable keeps it.
Snapshot ==
    [watcher |-> watcher, subs |-> subs, isPaused |-> isPaused,
     pendingComments |-> pendingComments]

\* Mutant: watch() registers no listener for "ready".
WatchedEventsNoReady == {"change", "error"}

\* The events CommentWatcher.watch registers a listener for.
WatchedEvents == {"ready", "change", "error"}

(***************************************************************************)
(* The notifier: MockFSWatcher of the CommentWatcher tests                 *)
(***************************************************************************)

\* new MockFSWatcher(): no listener, not closed.
NewFSWatcher == [listeners |-> {}, closed |-> FALSE]

\* MockFSWatcher.on(event, listener) for each event of evs.
FSWatcherOn(w, evs) == [w EXCEPT !.listeners = @ \cup evs]

\* Mutant: close() clears the listeners and leaves closed false.
FSWatcherCloseKeepsOpen(w) == [w EXCEPT !.listeners = {}]

\* Mutant: close() sets closed and keeps the listeners.
FSWatcherCloseKeepsListeners(w) == [w EXCEPT !.closed = TRUE]

\* MockFSWatcher.close(): closed, and the listeners cleared.
FSWatcherClose(w) == [w EXCEPT !.closed = TRUE, !.listeners = {}]

\* MockFSWatcher.emit(event) reaches a listener.
FSWatcherDelivers(w, ev) == ev \in w.listeners

(***************************************************************************)
(* The PendingSet: a Map<string, ParsedComment[]>, kept in insertion order *)
(***************************************************************************)

MapHas(m, key) == \E k \in DOMAIN m : m[k].filePath = key

MapGet(m, key) ==
    IF MapHas(m, key)
    THEN m[CHOOSE k \in DOMAIN m : m[k].filePath = key].comments
    ELSE <<>>

\* Map.prototype.delete.
MapDelete(m, key) == SelectSeq(m, LAMBDA e : e.filePath # key)

\* Map.prototype.set: a key already present keeps its place.
MapSet(m, key, comments) ==
    IF MapHas(m, key)
    THEN [k \in DOMAIN m |->
             IF m[k].filePath = key THEN [m[k] EXCEPT !.comments = comments] ELSE m[k]]
    ELSE Append(m, [filePath |-> key, comments |-> comments])

\* The blocks of all entries, entry after entry.
RECURSIVE Flatten(_)
Flatten(m) ==
    IF Len(m) = 0 THEN <<>> ELSE m[1].comments \o Flatten(Tail(m))

\* getPendingComments().
getPendingComments == Flatten(pendingComments)

(***************************************************************************)
(* CommentWatcher                                                          *)
(***************************************************************************)

\* The blocks of a scan that carry no trigger.
NonTriggerComments(comments) == SelectSeq(comments, LAMBDA c : ~c.hasTrigger)

\* The keys of the blocks stored for filePath.
PendingKeys(m, filePath) ==
    LET old == MapGet(m, filePath)
    IN  {getCommentKey(old[k]) : k \in DOMAIN old}

\* The change handler did nothing.
Unhandled(pending) == [pending |-> pending, calls |-> <<>>]

\* Mutant: the trigger is delivered and the PendingSet kept.
HandleTriggerKeepsPending(pending, filePath, comments) ==
    [pending |-> pending,
     calls   |-> << [cb |-> "onAITrigger",
                     comments |-> Flatten(MapDelete(pending, filePath)) \o comments] >>]

\* The scan of filePath holds a trigger: onAITrigger gets the blocks pending
\* for the other files followed by the whole scan, and the PendingSet is
\* flushed.
HandleTrigger(pending, filePath, comments) ==
    [pending |-> <<>>,
     calls   |-> << [cb |-> "onAITrigger",
                     comments |-> Flatten(MapDelete(pending, filePath)) \o comments] >>]

\* Mutant: the entry of filePath is set to the whole scan, empty or not.
HandleCollectStoresScan(pending, filePath, comments) ==
    LET seen    == PendingKeys(pending, filePath)
        updated == MapSet(pending, filePath, comments)
        fresh   == SelectSeq(comments, LAMBDA c : getCommentKey(c) \notin seen)
    IN  [pending |-> updated,
         calls   |-> [k \in DOMAIN fresh |->
                         [cb |-> "onAIComment", comment |-> fresh[k],
                          allPending |-> Flatten(updated)]]]

\* The scan of filePath holds no trigger: its entry is replaced (removed when
\* the scan is empty) and onAIComment gets each block not stored before,
\* with the flattened PendingSet.
HandleCollect(pending, filePath, comments) ==
    LET blocks  == NonTriggerComments(comments)
        seen    == PendingKeys(pending, filePath)
        updated == IF Len(blocks) = 0 THEN MapDelete(pending, filePath)
                   ELSE MapSet(pending, filePath, blocks)
        fresh   == SelectSeq(blocks, LAMBDA c : getCommentKey(c) \notin seen)
    IN  [pending |-> updated,
         calls   |-> [k \in DOMAIN fresh |->
                         [cb |-> "onAIComment", comment |-> fresh[k],
                          allPending |-> Flatten(updated)]]]

\* Mutant: the handler does not look at the paused flag.
handleChangeWhilePaused(paused, pending, filePath, read) ==
    IF shouldIgnorePath(filePath, ignoredPatterns) THEN Unhandled(pending)
    ELSE LET result == readFileAndParseComments(filePath, read)
         IN  IF result = Null THEN Unhandled(pending)
             ELSE IF hasTriggerComment(Get(result).comments)
             THEN HandleTrigger(pending, filePath, Get(result).comments)
             ELSE HandleCollect(pending, filePath, Get(result).comments)

\* The listener of "change": paused and ignored paths return early, a failed
\* read is swallowed, a scan with a trigger is delivered, any other collected.
handleChange(paused, pending, filePath, read) ==
    IF paused THEN Unhandled(pending)
    ELSE IF shouldIgnorePath(filePath, ignoredPatterns) THEN Unhandled(pending)
    ELSE LET result == readFileAndParseComments(filePath, read)
         IN  IF result = Null THEN Unhandled(pending)
             ELSE IF hasTriggerComment(Get(result).comments)
             THEN HandleTrigger(pending, filePath, Get(result).comments)
             ELSE HandleCollect(pending, filePath, Get(result).comments)

\* The subscriptions after close() of the current one, if any.
ClosedCurrent ==
    IF watcher = 0 THEN subs
    ELSE [subs EXCEPT ![watcher] = FSWatcherClose(@)]

\* Mutant: watch() starts with an empty PendingSet.
WatchClearsPending ==
    /\ Len(subs) < MaxWatches
    /\ subs' = Append(ClosedCurrent, FSWatcherOn(NewFSWatcher, WatchedEvents))
    /\ watcher' = Len(subs) + 1
    /\ event' = [type |-> "watch"]
    /\ calls' = <<>>
    /\ before' = Snapshot
    /\ pendingComments' = <<>>
    /\ UNCHANGED isPaused

\* watch(): close the current subscription, ask the factory for a new one
\* and register the three listeners on it.
Watch ==
    /\ Len(subs) < MaxWatches
    /\ subs' = Append(ClosedCurrent, FSWatcherOn(NewFSWatcher, WatchedEvents))
    /\ watcher' = Len(subs) + 1
    /\ event' = [type |-> "watch"]
    /\ calls' = <<>>
    /\ before' = Snapshot
    /\ UNCHANGED <<isPaused, pendingComments>>

\* close(): close the current subscription, if any, and forget it.
Close ==
    /\ subs' = ClosedCurrent
    /\ watcher' = 0
    /\ event' = [type |-> "close"]
    /\ calls' = <<>>
    /\ before' = Snapshot
    /\ UNCHANGED <<isPaused, pendingComments>>

\* Mutant: pause() flips the flag instead of setting it.
PauseToggles ==
    /\ isPaused' = ~isPaused
    /\ event' = [type |-> "pause"]
    /\ calls' = <<>>
    /\ before' = Snapshot
    /\ UNCHANGED <<watcher, subs, pendingComments>>

\* pause().
Pause ==
    /\ isPaused' = TRUE
    /\ event' = [type |-> "pause"]
    /\ calls' = <<>>
    /\ before' = Snapshot
    /\ UNCHANGED <<watcher, subs, pendingComments>>

\* resume().
Resume ==
    /\ isPaused' = FALSE
    /\ event' = [type |-> "resume"]
    /\ calls' = <<>>
    /\ before' = Snapshot
    /\ UNCHANGED <<watcher, subs, pendingComments>>

\* Mutant: clearPending() delivers what it discards, as a trigger does.
ClearPendingFlushes ==
    /\ pendingComments' = <<>>
    /\ event' = [type |-> "clearPending"]
    /\ calls' = IF pendingComments = <<>> THEN <<>>
                ELSE << [cb |-> "onAITrigger", comments |-> getPendingComments] >>
    /\ before' = Snapshot
    /\ UNCHANGED <<watcher, subs, isPaused>>

\* clearPending().
ClearPending ==
    /\ pendingComments' = <<>>
    /\ event' = [type |-> "clearPending"]
    /\ calls' = <<>>
    /\ before' = Snapshot
    /\ UNCHANGED <<watcher, subs, isPaused>>

\* A call of getPendingComments(), its result kept in the event.
GetPendingComments ==
    /\ event' = [type |-> "getPendingComments", result |-> getPendingComments]
    /\ calls' = <<>>
    /\ before' = Snapshot
    /\ UNCHANGED <<watcher, subs, isPaused, pendingComments>>

\* The notifier of subscription s emits change(filePath); read is what
\* fs.readFileSync does for the file at that moment.
EmitChange(s, filePath, read) ==
    LET delivered == FSWatcherDelivers(subs[s], "change")
        handled   == IF delivered
                     THEN handleChange(isPaused, pendingComments, filePath, read)
                     ELSE Unhandled(pendingComments)
    IN  /\ pendingComments' = handled.pending
        /\ calls' = handled.calls
        /\ before' = Snapshot
        /\ event' = [type |-> "change", sub |-> s, path |-> filePath, read |-> read,
                     delivered |-> delivered]
        /\ UNCHANGED <<watcher, subs, isPaused>>

\* The notifier of subscription s emits ready.
EmitReady(s) ==
    LET delivered == FSWatcherDelivers(subs[s], "ready")
    IN  /\ calls' = IF delivered THEN << [cb |-> "onReady"] >> ELSE <<>>
        /\ event' = [type |-> "ready", sub |-> s, delivered |-> delivered]
        /\ before' = Snapshot
        /\ UNCHANGED <<watcher, subs, isPaused, pendingComments>>

\* The errors a notifier reports.
Errors == {"Test error", "Other error"}

\* Mutant: the listener of "error" gives up the subscription.
EmitErrorCloses(s, error) ==
    LET delivered == FSWatcherDelivers(subs[s], "error")
    IN  /\ calls' = IF delivered THEN << [cb |-> "onError", error |-> error] >> ELSE <<>>
        /\ event' = [type |-> "error", sub |-> s, error |-> error, delivered |-> delivered]
        /\ before' = Snapshot
        /\ subs' = IF delivered THEN [subs EXCEPT ![s] = FSWatcherClose(@)] ELSE subs
        /\ UNCHANGED <<watcher, isPaused, pendingComments>>

\* The notifier of subscription s emits error(error).
EmitError(s, error) ==
    LET delivered == FSWatcherDelivers(subs[s], "error")
    IN  /\ calls' = IF delivered THEN << [cb |-> "onError", error |-> error] >> ELSE <<>>
        /\ event' = [type |-> "error", sub |-> s, error |-> error, delivered |-> delivered]
        /\ before' = Snapshot
        /\ UNCHANGED <<watcher, subs, isPaused, pendingComments>>

\* new CommentWatcher(factory, callbacks, options).
Init ==
    /\ watcher = 0
    /\ subs = <<>>
    /\ isPaused = FALSE
    /\ pendingComments = <<>>
    /\ event = [type |-> "new"]
    /\ calls = <<>>
    /\ before = Snapshot

Next ==
    \/ Watch
    \/ Close
    \/ Pause
    \/ Resume
    \/ ClearPending
    \/ GetPendingComments
    \/ \E s \in DOMAIN subs, filePath \in Paths, read \in Reads :
           EmitChange(s, filePath, read)
    \/ \E s \in DOMAIN subs : EmitReady(s)
    \/ \E s \in DOMAIN subs, error \in Errors : EmitError(s, error)

Spec == Init /\ [][Next]_vars

\* What a host callback may do with the watcher while it runs.
InCallback == {"none", "pause", "resume"}

\* The paused flag after a callback that made the call inCallback.
AfterCallback(paused, inCallback) ==
    CASE inCallback = "pause"  -> TRUE
      [] inCallback = "resume" -> FALSE
      [] OTHER                 -> paused

\* A change event whose onAIComment / onAITrigger callback calls pause() or
\* resume() on the watcher before it returns.  The handler has read the
\* flag before it invokes the callback.
EmitChangeInCallback(s, filePath, read) ==
    LET delivered == FSWatcherDelivers(subs[s], "change")
    IN  \E handled \in {IF delivered
                        THEN handleChange(isPaused, pendingComments, filePath, read)
                        ELSE Unhandled(pendingComments)} :
            /\ pendingComments' = handled.pending
            /\ calls' = handled.calls
            /\ before' = Snapshot
            /\ \E inCallback \in InCallback :
                   /\ inCallback # "none" => handled.calls # <<>>
                   /\ isPaused' = AfterCallback(isPaused, inCallback)
                   /\ event' = [type |-> "change", sub |-> s, path |-> filePath,
                                read |-> read, delivered |-> delivered,
                                inCallback |-> inCallback]
            /\ UNCHANGED <<watcher, subs>>

NextCallbacks ==
    \/ Watch
    \/ Close
    \/ Pause
    \/ Resume
    \/ ClearPending
    \/ \E s \in DOMAIN subs, filePath \in Paths, read \in Reads :
           EmitChangeInCallback(s, filePath, read)

\* The watcher with hosts whose callbacks call back into it.
SpecCallbacks == Init /\ [][NextCallbacks]_vars

\* A change event, recorded with the callbacks the operation before it
\* invoked, so that two change events in a row can be told.
EmitChangeAfter(s, filePath, read) ==
    LET delivered == FSWatcherDelivers(subs[s], "change")
    IN  \E handled \in {IF delivered
                        THEN handleChange(isPaused, pendingComments, filePath, read)
                        ELSE Unhandled(pendingComments)} :
            /\ pendingComments' = handled.pending
            /\ calls' = handled.calls
            /\ before' = Snapshot
            /\ event' = [type |-> "change", sub |-> s, path |-> filePath, read |-> read,
                         delivered |-> delivered, previous |-> calls]
            /\ UNCHANGED <<watcher, subs, isPaused>>

NextDelivery ==
    \/ Watch
    \/ \E s \in DOMAIN subs, filePath \in Paths, read \in Reads :
           EmitChangeAfter(s, filePath, read)

\* The watcher under change events alone.
SpecDelivery == Init /\ [][NextDelivery]_vars

(***************************************************************************)
(* parseCommentsInFile as a function of its arguments                      *)
(***************************************************************************)

\* The longest content given to parseCommentsInFile, in lines.
MaxLines == 5

\* A marker line with whitespace around it, and an empty line.
LineIndented == <<" ", " ">> \o LineYAi \o <<" ">>
LineEmpty    == <<>>

\* The lines the contents are made of.
ParseLines == {LineCode, LineAiX, LineTrig, LineIndented, LineEmpty}

\* The sequences of at most n elements of S.
RECURSIVE SeqUpTo(_, _)
SeqUpTo(S, n) ==
    IF n = 0 THEN {<<>>}
    ELSE LET shorter == SeqUpTo(S, n - 1)
         IN  shorter \cup {Append(q, x) : q \in {p \in shorter : Len(p) = n - 1}, x \in S}

\* The arguments of a call: a path and the lines joined with "\n".
InitParse ==
    /\ watcher = 0
    /\ subs = <<>>
    /\ isPaused = FALSE
    /\ pendingComments = <<>>
    /\ calls = <<>>
    /\ before = Snapshot
    /\ event \in {[type |-> "arguments", filePath |-> filePath, content |-> JoinLines(lines)] :
                     filePath \in {PathA, PathB}, lines \in SeqUpTo(ParseLines, MaxLines)}

\* parseCommentsInFile(filePath, content), its result kept in the event.
ParseCommentsInFile ==
    /\ event.type = "arguments"
    /\ event' = [type |-> "parseCommentsInFile", filePath |-> event.filePath,
                 content |-> event.content,
                 result |-> parseCommentsInFile(event.filePath, event.content)]
    /\ UNCHANGED <<watcher, subs, isPaused, pendingComments, calls, before>>

NextParse == ParseCommentsInFile

SpecParse == InitParse /\ [][NextParse]_vars

(***************************************************************************)
(* parseAIComment as a function of its argument                            *)
(***************************************************************************)

\* What the lines given to parseAIComment are made of: a comment prefix (or
\* the start of a code line), the marker in some capitalisation, with or
\* without "!", a punctuation character directly after it, and a text.
Prefixes     == {<<"/", "/">>, <<"#">>, <<"-", "-">>, <<"x">>}
Gaps         == {<<>>, <<" ">>}
Positions    == {"leading", "trailing"}
Texts        == {<<>>, <<"x">>, <<"f", "i", "x", " ", "i", "t">>}
MarkerCases  == {<<"a", "i">>, <<"A", "I">>, <<"A", "i">>, <<"a", "I">>}
Bangs        == {<<>>, <<"!">>}
Punctuations == {<<>>, <<":">>, <<".">>, <<",">>}

LineParts ==
    [prefix : Prefixes, gap : Gaps, position : Positions, text : Texts, sep : Gaps,
     marker : MarkerCases, bang : Bangs, punct : Punctuations]

\* The line the parts spell.
LineOf(parts) ==
    IF parts.position = "leading"
    THEN parts.prefix \o parts.gap \o parts.marker \o parts.bang \o parts.punct
             \o parts.sep \o parts.text
    ELSE parts.prefix \o parts.gap \o parts.text \o parts.sep
             \o parts.marker \o parts.bang \o parts.punct

\* The argument of a call.
InitLine ==
    /\ watcher = 0
    /\ subs = <<>>
    /\ isPaused = FALSE
    /\ pendingComments = <<>>
    /\ calls = <<>>
    /\ before = Snapshot
    /\ event \in {[type |-> "argument", parts |-> parts, line |-> LineOf(parts)] :
                     parts \in LineParts}

\* parseAIComment(line), its result kept in the event.
ParseAIComment ==
    /\ event.type = "argument"
    /\ event' = [type |-> "parseAIComment", parts |-> event.parts, line |-> event.line,
                 result |-> parseAIComment(event.line)]
    /\ UNCHANGED <<watcher, subs, isPaused, pendingComments, calls, before>>

NextLine == ParseAIComment

SpecLine == InitLine /\ [][NextLine]_vars

\* Lines whose text holds the characters "ai!" away from the marker.
FreeTexts == {<<"x">>, <<"s", "a", "y", " ", "a", "i", "!", " ", "n", "o", "w">>}

FreeTextParts ==
    [prefix : Prefixes, gap : Gaps, position : Positions, text : FreeTexts, sep : Gaps,
     marker : MarkerCases, bang : Bangs, punct : {<<>>, <<":">>}]

InitFreeText ==
    /\ watcher = 0
    /\ subs = <<>>
    /\ isPaused = FALSE
    /\ pendingComments = <<>>
    /\ calls = <<>>
    /\ before = Snapshot
    /\ event \in {[type |-> "argument", parts |-> parts, line |-> LineOf(parts)] :
                     parts \in FreeTextParts}

NextFreeText == ParseAIComment

SpecFreeText == InitFreeText /\ [][NextFreeText]_vars

(***************************************************************************)
(* core.ts: getRelativePath and createAIMessage                            *)
(***************************************************************************)

Digits == <<"0", "1", "2", "3", "4", "5", "6", "7", "8", "9">>

\* The decimal digits a template literal writes for a number n >= 0.
RECURSIVE NumberToString(_)
NumberToString(n) ==
    IF n < 10 THEN <<Digits[n + 1]>>
    ELSE NumberToString(n \div 10) \o <<Digits[(n % 10) + 1]>>

\* The segments of an absolute path: what stands between its "/".
RECURSIVE Segments(_)
Segments(p) ==
    IF \A k \in 1..Len(p) : p[k] # "/"
    THEN IF p = <<>> THEN <<>> ELSE <<p>>
    ELSE LET sl   == CHOOSE k \in 1..Len(p) : p[k] = "/" /\ \A j \in 1..(k - 1) : p[j] # "/"
             head == Slice(p, 1, sl - 1)
             rest == Segments(Slice(p, sl + 1, Len(p)))
         IN  IF head = <<>> THEN rest ELSE <<head>> \o rest

\* The segments joined with "/".
RECURSIVE JoinPath(_)
JoinPath(segs) ==
    IF Len(segs) = 0 THEN <<>>
    ELSE IF Len(segs) = 1 THEN segs[1]
    ELSE segs[1] \o <<"/">> \o JoinPath(Tail(segs))

\* process.cwd().
Cwd == <<"/", "p">>

\* path.resolve(p): a path that is not absolute is taken from process.cwd().
pathResolve(p) == IF Len(p) > 0 /\ p[1] = "/" THEN p ELSE Cwd \o <<"/">> \o p

\* path.relative(from, to): both resolved, then ".." for each segment of from
\* below the common directory, then the segments of to below it.
pathRelative(from, to) ==
    LET f      == Segments(pathResolve(from))
        t      == Segments(pathResolve(to))
        shared == CHOOSE n \in 0..Len(f) :
                      /\ n <= Len(t)
                      /\ SubSeq(f, 1, n) = SubSeq(t, 1, n)
                      /\ \A m \in (n + 1)..Len(f) :
                             m > Len(t) \/ SubSeq(f, 1, m) # SubSeq(t, 1, m)
    IN  JoinPath([k \in 1..(Len(f) - shared) |-> <<".", ".">>]
                     \o SubSeq(t, shared + 1, Len(t)))

getRelativePath(filePath, cwd) == pathRelative(cwd, filePath)

\* The instructions every message starts with.
Preamble ==
       <<"T", "h", "e", " ", "A", "I", " ", "c", "o", "m", "m", "e", "n",
         "t", "s", " ", "b", "e", "l", "o", "w", " ", "c", "a", "n", " ",
         "b", "e", " ", "f", "o", "u", "n", "d", " ", "i", "n", " ", "t",
         "h", "e", " ", "c", "o", "d", "e", " ", "f", "i", "l", "e", "s",
         ".", "\n">>
    \o
       <<"T", "h", "e", "y", " ", "c", "o", "n", "t", "a", "i", "n", " ",
         "y", "o", "u", "r", " ", "i", "n", "s", "t", "r", "u", "c", "t",
         "i", "o", "n", "s", ".", "\n">>
    \o
       <<"L", "i", "n", "e", " ", "n", "u", "m", "b", "e", "r", "s", " ",
         "a", "r", "e", " ", "p", "r", "o", "v", "i", "d", "e", "d", " ",
         "f", "o", "r", " ", "r", "e", "f", "e", "r", "e", "n", "c", "e",
         ".", "\n">>
    \o
       <<"R", "u", "l", "e", "s", ":", "\n">>
    \o
       <<"-", " ", "O", "n", "l", "y", " ", "m", "a", "k", "e", " ", "c",
         "h", "a", "n", "g", "e", "s", " ", "t", "o", " ", "f", "i", "l",
         "e", "s", " ", "a", "n", "d", " ", "l", "i", "n", "e", "s", " ",
         "t", "h", "a", "t", " ", "h", "a", "v", "e", " ", "A", "I", " ",
         "c", "o", "m", "m", "e", "n", "t", "s", ".", "\n">>
    \o
       <<"-", " ", "D", "o", " ", "n", "o", "t", " ", "m", "o", "d", "i",
         "f", "y", " ", "a", "n", "y", " ", "o", "t", "h", "e", "r", " ",
         "f", "i", "l", "e", "s", " ", "o", "r", " ", "a", "r", "e", "a",
         "s", " ", "o", "f", " ", "f", "i", "l", "e", "s", ".", "\n">>
    \o
       <<"-", " ", "F", "o", "l", "l", "o", "w", " ", "t", "h", "e", " ",
         "i", "n", "s", "t", "r", "u", "c", "t", "i", "o", "n", "s", " ",
         "i", "n", " ", "t", "h", "e", " ", "A", "I", " ", "c", "o", "m",
         "m", "e", "n", "t", "s", " ", "s", "t", "r", "i", "c", "t", "l",
         "y", ".", "\n">>
    \o
       <<"-", " ", "B", "e", " ", "s", "u", "r", "e", " ", "t", "o", " ",
         "r", "e", "m", "o", "v", "e", " ", "a", "l", "l", " ", "A", "I",
         " ", "c", "o", "m", "m", "e", "n", "t", "s", " ", "f", "r", "o",
         "m", " ", "t", "h", "e", " ", "c", "o", "d", "e", " ", "d", "u",
         "r", "i", "n", "g", " ", "o", "r", " ", "a", "f", "t", "e", "r",
         " ", "t", "h", "e", " ", "c", "h", "a", "n", "g", "e", "s", ".", "\n">>
    \o
       <<"-", " ", "A", "f", "t", "e", "r", " ", "c", "h", "a", "n", "g",
         "e", "s", " ", "a", "r", "e", " ", "f", "i", "n", "i", "s", "e",
         "d", " ", "s", "a", "y", " ", "j", "u", "s", "t", " ", "\"", "D",
         "o", "n", "e", "\"", " ", "a", "n", "d", " ", "n", "o", "t", "h",
         "i", "n", "g", " ", "e", "l", "s", "e", ".", "\n", "\n">>

\* Mutant: every line of a block gets the block's lineNumber.
RECURSIVE NumberedLinesSameNumber(_, _)
NumberedLinesSameNumber(comment, i) ==
    IF i > Len(comment.rawLines) THEN <<>>
    ELSE NumberToString(comment.lineNumber) \o <<":", " ">>
             \o comment.rawLines[i] \o <<"\n">> \o NumberedLinesSameNumber(comment, i + 1)

\* `${lineNumber}: ${comment.rawLines[i]}\n` for the raw lines from i on
\* (i from 1), the number of line i being comment.lineNumber + (i - 1).
RECURSIVE NumberedLines(_, _)
NumberedLines(comment, i) ==
    IF i > Len(comment.rawLines) THEN <<>>
    ELSE NumberToString(comment.lineNumber + (i - 1)) \o <<":", " ">>
             \o comment.rawLines[i] \o <<"\n">> \o NumberedLines(comment, i + 1)

\* One iteration of the loop over the comments: the path line, the numbered
\* lines and an empty line.
FormatComment(comment) ==
    getRelativePath(comment.filePath, Cwd) \o <<":", "\n">>
        \o NumberedLines(comment, 1) \o <<"\n">>

RECURSIVE FormatComments(_)
FormatComments(comments) ==
    IF Len(comments) = 0 THEN <<>>
    ELSE FormatComment(comments[1]) \o FormatComments(Tail(comments))

createAIMessage(comments) ==
    IF Len(comments) = 0 THEN <<>>
    ELSE Trim(Preamble \o FormatComments(comments))

(***************************************************************************)
(* createAIMessage as a function of its argument                           *)
(***************************************************************************)

\* The longest list given to createAIMessage.
MaxBlocks == 3

\* Files below process.cwd(): directly in it and in a subdirectory.
MessagePaths == {<<"/", "p", "/", "a", ".", "t", "s">>,
                 <<"/", "p", "/", "s", "/", "b", ".", "p", "y">>}

\* Block starts with one and with two digits, the second reaching line 10.
MessageLineNumbers == {1, 9}

\* One raw line, and two of which the last ends with white space.
MessageRawLines == {<<LineAiX>>, <<LineTrig, LineIndented>>}

MessageBlocks ==
    {ParsedComment(filePath, lineNumber, rawLines,
                   \E k \in DOMAIN rawLines : parseAIComment(rawLines[k]) = Some(TRUE)) :
        filePath \in MessagePaths, lineNumber \in MessageLineNumbers,
        rawLines \in MessageRawLines}

\* The argument of a call.
InitMessage ==
    /\ watcher = 0
    /\ subs = <<>>
    /\ isPaused = FALSE
    /\ pendingComments = <<>>
    /\ calls = <<>>
    /\ before = Snapshot
    /\ event \in {[type |-> "argument", comments |-> comments] :
                     comments \in SeqUpTo(MessageBlocks, MaxBlocks)}

\* createAIMessage(comments), its result kept in the event.
CreateAIMessage ==
    /\ event.type = "argument"
    /\ event' = [type |-> "createAIMessage", comments |-> event.comments,
                 result |-> createAIMessage(event.comments)]
    /\ UNCHANGED <<watcher, subs, isPaused, pendingComments, calls, before>>

NextMessage == CreateAIMessage

SpecMessage == InitMessage /\ [][NextMessage]_vars

(***************************************************************************)
(* index.ts: the extension in its host                                     *)
(*                                                                         *)
(* The host fires session_start when no session is open and no agent is    *)
(* running, then agent_start and agent_end in turn, and session_shutdown.  *)
(* event.commentWatcher tells whether commentWatcher is set, event.agent   *)
(* whether the agent is between agent_start and agent_end; calls holds the *)
(* pi.sendUserMessage calls of the last handler.  ui.notify is left out.   *)
(***************************************************************************)

\* The extension function has run: handlers registered, commentWatcher null.
InitHost ==
    /\ watcher = 0
    /\ subs = <<>>
    /\ isPaused = FALSE
    /\ pendingComments = <<>>
    /\ calls = <<>>
    /\ before = Snapshot
    /\ event = [type |-> "load", commentWatcher |-> FALSE, agent |-> FALSE]

\* session_start: without the --watch flag nothing; with it a new
\* CommentWatcher, and watch(cwd) on it.
SessionStart(flag) ==
    /\ ~event.commentWatcher
    /\ ~event.agent
    /\ Len(subs) < MaxWatches
    /\ IF flag
       THEN /\ subs' = Append(subs, FSWatcherOn(NewFSWatcher, WatchedEvents))
            /\ watcher' = Len(subs) + 1
            /\ isPaused' = FALSE
            /\ pendingComments' = <<>>
       ELSE UNCHANGED <<subs, watcher, isPaused, pendingComments>>
    /\ calls' = <<>>
    /\ before' = Snapshot
    /\ event' = [type |-> "session_start", commentWatcher |-> flag, agent |-> event.agent]

\* Mutant: agent_start does not pause the watcher.
AgentStartNoPause ==
    /\ ~event.agent
    /\ calls' = <<>>
    /\ before' = Snapshot
    /\ event' = [type |-> "agent_start", commentWatcher |-> event.commentWatcher,
                 agent |-> TRUE]
    /\ UNCHANGED <<watcher, subs, pendingComments, isPaused>>

\* agent_start: commentWatcher?.pause().
AgentStart ==
    /\ ~event.agent
    /\ isPaused' = IF event.commentWatcher THEN TRUE ELSE isPaused
    /\ calls' = <<>>
    /\ before' = Snapshot
    /\ event' = [type |-> "agent_start", commentWatcher |-> event.commentWatcher,
                 agent |-> TRUE]
    /\ UNCHANGED <<watcher, subs, pendingComments>>

\* agent_end: commentWatcher?.resume().
AgentEnd ==
    /\ event.agent
    /\ isPaused' = IF event.commentWatcher THEN FALSE ELSE isPaused
    /\ calls' = <<>>
    /\ before' = Snapshot
    /\ event' = [type |-> "agent_end", commentWatcher |-> event.commentWatcher,
                 agent |-> FALSE]
    /\ UNCHANGED <<watcher, subs, pendingComments>>

\* session_shutdown: close() and forget the watcher.
SessionShutdown ==
    /\ subs' = IF event.commentWatcher THEN ClosedCurrent ELSE subs
    /\ watcher' = IF event.commentWatcher THEN 0 ELSE watcher
    /\ calls' = <<>>
    /\ before' = Snapshot
    /\ event' = [type |-> "session_shutdown", commentWatcher |-> FALSE,
                 agent |-> event.agent]
    /\ UNCHANGED <<isPaused, pendingComments>>

\* The onAITrigger callback of index.ts for each onAITrigger of the watcher:
\* nothing for an empty list, else pi.sendUserMessage(createAIMessage(..)).
RECURSIVE HostCallbacks(_)
HostCallbacks(watcherCalls) ==
    IF Len(watcherCalls) = 0 THEN <<>>
    ELSE LET c == watcherCalls[1]
         IN  (IF c.cb = "onAITrigger" /\ Len(c.comments) # 0
              THEN << [cb |-> "sendUserMessage",
                       message |-> createAIMessage(c.comments),
                       deliverAs |-> "followUp"] >>
              ELSE <<>>)
                 \o HostCallbacks(Tail(watcherCalls))

\* The notifier of subscription s emits change(filePath) to the watcher of
\* the extension, whose callbacks are those of index.ts.
HostChange(s, filePath, read) ==
    LET delivered == FSWatcherDelivers(subs[s], "change")
    IN  \E handled \in {IF delivered
                        THEN handleChange(isPaused, pendingComments, filePath, read)
                        ELSE Unhandled(pendingComments)} :
            /\ pendingComments' = handled.pending
            /\ calls' = HostCallbacks(handled.calls)
            /\ before' = Snapshot
            /\ event' = [type |-> "change", sub |-> s, path |-> filePath, read |-> read,
                         delivered |-> delivered,
                         commentWatcher |-> event.commentWatcher, agent |-> event.agent]
            /\ UNCHANGED <<watcher, subs, isPaused>>

NextHost ==
    \/ \E flag \in BOOLEAN : SessionStart(flag)
    \/ AgentStart
    \/ AgentEnd
    \/ SessionShutdown
    \/ \E s \in DOMAIN subs, filePath \in Paths, read \in Reads : HostChange(s, filePath, read)

SpecHost == InitHost /\ [][NextHost]_vars

(***************************************************************************)
(* What the properties are stated in                                       *)
(***************************************************************************)

IsMarkerLine(line) == parseAIComment(line) # Null
IsTriggerLine(line) == parseAIComment(line) = Some(TRUE)

\* The set S of numbers as an increasing sequence.
RECURSIVE Increasing(_)
Increasing(S) ==
    IF S = {} THEN <<>>
    ELSE LET least == CHOOSE n \in S : \A m \in S : n <= m
         IN  <<least>> \o Increasing(S \ {least})

\* The blocks of content, stated without the loop: one block for each maximal
\* run of marker lines, in the order of the lines.
MarkerRuns(filePath, content) ==
    LET lines  == SplitLines(content)
        starts == Increasing({i \in DOMAIN lines :
                                 /\ IsMarkerLine(lines[i])
                                 /\ i = 1 \/ ~IsMarkerLine(lines[i - 1])})
        end(i) == CHOOSE j \in i..Len(lines) :
                      /\ \A k \in i..j : IsMarkerLine(lines[k])
                      /\ j = Len(lines) \/ ~IsMarkerLine(lines[j + 1])
    IN  [n \in DOMAIN starts |->
            [filePath   |-> filePath,
             lineNumber |-> starts[n],
             rawLines   |-> SubSeq(lines, starts[n], end(starts[n])),
             hasTrigger |-> \E k \in starts[n]..end(starts[n]) : IsTriggerLine(lines[k])]]

\* The last operation was a change event.
ChangeEvent == event.type = "change"

\* ... emitted by the subscription the watcher held.
Subscribed == before.watcher # 0 /\ event.sub = before.watcher

\* The path matches one of the configured ignore patterns.
Ignored(filePath) ==
    \E k \in DOMAIN ignoredPatterns : PatternTest(ignoredPatterns[k], filePath)

\* The last operation was a change event the watcher had to process.
Processed ==
    /\ ChangeEvent
    /\ Subscribed
    /\ ~before.isPaused
    /\ ~Ignored(event.path)
    /\ event.read # Null

\* The blocks of the file of the last change event.
Scan == MarkerRuns(event.path, Get(event.read))

ScanHasTrigger == \E k \in DOMAIN Scan : Scan[k].hasTrigger

\* The invocations of one callback by the last operation.
CallsOf(cb) == SelectSeq(calls, LAMBDA c : c.cb = cb)

\* The entries of a PendingSet for the files other than filePath.
OtherEntries(m, filePath) == SelectSeq(m, LAMBDA e : e.filePath # filePath)

\* The files of a PendingSet, in stored order.
FileOrder(m) == [k \in DOMAIN m |-> m[k].filePath]

\* The elements of a sequence.
Range(q) == {q[k] : k \in DOMAIN q}

\* The subscriptions that have not been closed.
OpenSubscriptions == {s \in DOMAIN subs : ~subs[s].closed}

\* The last operation invoked no callback and left the PendingSet alone.
Dropped == calls = <<>> /\ pendingComments = before.pendingComments

(***************************************************************************)
(* C1: a processed change event whose scan holds at least one trigger      *)
(* block invokes onAITrigger exactly once and leaves the PendingSet empty  *)
(* for all files.                                                          *)
(***************************************************************************)
C1_TriggerOnceAndFlush ==
    (Processed /\ ScanHasTrigger) =>
        /\ Len(CallsOf("onAITrigger")) = 1
        /\ getPendingComments = <<>>
        /\ pendingComments = <<>>

\* Two trigger blocks in b.py while blocks of a.ts were pending.
C1_Witness ==
    /\ Processed
    /\ event.path = PathB
    /\ event.read = Some(ContentTrigTwo)
    /\ MapHas(before.pendingComments, PathA)
    /\ Len(CallsOf("onAITrigger")) = 1
    /\ pendingComments = <<>>

(***************************************************************************)
(* C2: the list given to onAITrigger for a change event on file F is the   *)
(* blocks pending for the files other than F, in stored order, followed by *)
(* all blocks of F's scan; blocks stored for F before are not in it.       *)
(***************************************************************************)
C2_TriggerPayload ==
    \A k \in DOMAIN calls :
        calls[k].cb = "onAITrigger" =>
            /\ ChangeEvent
            /\ event.read # Null
            /\ calls[k].comments =
                   Flatten(OtherEntries(before.pendingComments, event.path)) \o Scan

\* A trigger in a.ts, which was stored first with two blocks, while c.go and
\* then b.py were stored after it: the payload is c.go's, b.py's, the scan.
C2_Witness ==
    /\ Processed
    /\ event.path = PathA
    /\ event.read = Some(ContentMixed)
    /\ FileOrder(before.pendingComments) = <<PathA, PathC, PathB>>
    /\ Len(MapGet(before.pendingComments, PathA)) = 2
    /\ Len(calls) = 1
    /\ calls[1].cb = "onAITrigger"
    /\ [k \in DOMAIN calls[1].comments |-> calls[1].comments[k].filePath]
           = <<PathC, PathB, PathA, PathA>>

(***************************************************************************)
(* C3: a change event delivered while paused invokes no callback and       *)
(* leaves the PendingSet unchanged; resume() does the same, so the missed  *)
(* event is processed only when the notifier emits a change again: every   *)
(* onAIComment and onAITrigger comes from a change event handled unpaused. *)
(***************************************************************************)
C3_PausedDropsEvents ==
    /\ (ChangeEvent /\ before.isPaused) => Dropped
    /\ event.type = "resume" => (Dropped /\ ~isPaused)
    /\ \A k \in DOMAIN calls :
           calls[k].cb \in {"onAIComment", "onAITrigger"} =>
               (ChangeEvent /\ ~before.isPaused)

\* A trigger written to a.ts while paused, blocks of b.py pending.
C3_Witness ==
    /\ ChangeEvent
    /\ Subscribed
    /\ before.isPaused
    /\ event.path = PathA
    /\ event.read = Some(ContentTrig)
    /\ MapHas(pendingComments, PathB)
    /\ calls = <<>>

(***************************************************************************)
(* C4: a processed change event whose scan holds no trigger block replaces *)
(* the entry of its path by the blocks of the scan, removes the entry      *)
(* without a callback when the scan is empty, and leaves the entries of    *)
(* the other paths as they were.                                           *)
(***************************************************************************)
C4_CollectReplacesEntry ==
    (Processed /\ ~ScanHasTrigger) =>
        /\ MapGet(pendingComments, event.path) = Scan
        /\ MapHas(pendingComments, event.path) <=> Scan # <<>>
        /\ Scan = <<>> => calls = <<>>
        /\ OtherEntries(pendingComments, event.path)
               = OtherEntries(before.pendingComments, event.path)

\* a.ts held two blocks and now holds one; b.py's entry stays.
C4_Witness ==
    /\ Processed
    /\ event.path = PathA
    /\ event.read = Some(ContentOne)
    /\ Len(MapGet(before.pendingComments, PathA)) = 2
    /\ Len(MapGet(pendingComments, PathA)) = 1
    /\ MapHas(pendingComments, PathB)

(***************************************************************************)
(* C5: getPendingComments() is empty on a new watcher and stays empty      *)
(* until a change event is processed; a file first stored by a scan        *)
(* without trigger comes after the files already stored, a file stored     *)
(* again keeps its place, the blocks of each file are in file order; the   *)
(* call returns the flattened PendingSet and changes neither it nor the    *)
(* paused flag.                                                            *)
(***************************************************************************)
C5_PendingSnapshotOrder ==
    /\ event.type = "new" => getPendingComments = <<>>
    /\ (before.pendingComments = <<>> /\ pendingComments # <<>>) => Processed
    /\ (Processed /\ ~ScanHasTrigger /\ Scan # <<>>) =>
           IF MapHas(before.pendingComments, event.path)
           THEN FileOrder(pendingComments) = FileOrder(before.pendingComments)
           ELSE /\ FileOrder(pendingComments)
                       = Append(FileOrder(before.pendingComments), event.path)
                /\ getPendingComments = Flatten(before.pendingComments) \o Scan
    /\ \A e \in Range(pendingComments) :
           \A i, j \in DOMAIN e.comments :
               i < j => e.comments[i].lineNumber < e.comments[j].lineNumber
    /\ event.type = "getPendingComments" =>
           /\ event.result = Flatten(before.pendingComments)
           /\ pendingComments = before.pendingComments
           /\ isPaused = before.isPaused
           /\ calls = <<>>

\* getPendingComments() called with b.py stored before a.ts: three blocks,
\* b.py's two first.
C5_Witness ==
    /\ event.type = "getPendingComments"
    /\ FileOrder(pendingComments) = <<PathB, PathA>>
    /\ Len(event.result) = 3
    /\ event.result[1].filePath = PathB
    /\ event.result[2].filePath = PathB
    /\ event.result[2].lineNumber = 3
    /\ event.result[3].filePath = PathA

(***************************************************************************)
(* C6: a processed change event whose scan holds no trigger block invokes  *)
(* onAIComment once for each block of the scan that was not already        *)
(* pending for the path, in file order, each time with the flattened       *)
(* PendingSet as it is after the entry has been replaced, which holds the  *)
(* reported block.                                                         *)
(***************************************************************************)
C6_CommentCallbacks ==
    (Processed /\ ~ScanHasTrigger) =>
        LET known == Range(MapGet(before.pendingComments, event.path))
            fresh == SelectSeq(Scan, LAMBDA c : c \notin known)
        IN  /\ calls = [k \in DOMAIN fresh |->
                           [cb |-> "onAIComment", comment |-> fresh[k],
                            allPending |-> getPendingComments]]
            /\ \A k \in DOMAIN calls :
                   /\ calls[k].comment \in Range(calls[k].allPending)
                   /\ \A e \in Range(OtherEntries(before.pendingComments, event.path)) :
                          Range(e.comments) \subseteq Range(calls[k].allPending)

\* a.ts held the block of line 1 and now holds a second one at line 3, while
\* b.py is pending: one onAIComment, for line 3, with all three blocks.
C6_Witness ==
    /\ Processed
    /\ event.path = PathA
    /\ event.read = Some(ContentTwo)
    /\ Len(MapGet(before.pendingComments, PathA)) = 1
    /\ MapHas(before.pendingComments, PathB)
    /\ Len(calls) = 1
    /\ calls[1].cb = "onAIComment"
    /\ calls[1].comment.lineNumber = 3
    /\ Len(calls[1].allPending) >= 3

(***************************************************************************)
(* C7: a change event whose file cannot be read invokes no callback and    *)
(* leaves the PendingSet unchanged: the entry stored for that path stays.  *)
(***************************************************************************)
C7_UnreadableIsNoOp ==
    (ChangeEvent /\ event.read = Null) =>
        /\ Dropped
        /\ MapGet(pendingComments, event.path)
               = MapGet(before.pendingComments, event.path)

\* The read of a.ts fails while a.ts has an entry.
C7_Witness ==
    /\ ChangeEvent
    /\ Subscribed
    /\ ~before.isPaused
    /\ event.path = PathA
    /\ event.read = Null
    /\ MapHas(before.pendingComments, PathA)
    /\ MapHas(pendingComments, PathA)

(***************************************************************************)
(* C8: a change event for a path that matches an ignore pattern invokes no *)
(* callback and leaves the PendingSet unchanged, trigger or not; a path    *)
(* that matches none is processed: a trigger in it is delivered, the       *)
(* blocks of a scan without trigger are stored.                            *)
(***************************************************************************)
C8_IgnoredPaths ==
    /\ (ChangeEvent /\ Ignored(event.path)) => Dropped
    /\ (Processed /\ ScanHasTrigger) => Len(CallsOf("onAITrigger")) = 1
    /\ (Processed /\ ~ScanHasTrigger) => MapGet(pendingComments, event.path) = Scan

\* A trigger written under .git while a.ts is pending.
C8_Witness ==
    /\ ChangeEvent
    /\ Subscribed
    /\ ~before.isPaused
    /\ event.path = PathIgnored
    /\ event.read = Some(ContentTrig)
    /\ MapHas(pendingComments, PathA)
    /\ calls = <<>>

(***************************************************************************)
(* C9: at most one subscription is open; watch() called while one is held  *)
(* closes it and opens the new one.                                        *)
(***************************************************************************)
C9_OneSubscription ==
    /\ Cardinality(OpenSubscriptions) <= 1
    /\ (event.type = "watch" /\ before.watcher # 0) =>
           /\ subs[before.watcher].closed
           /\ OpenSubscriptions = {watcher}
           /\ watcher # before.watcher

\* The second watch(): the first subscription is closed, the second open.
C9_Witness ==
    /\ event.type = "watch"
    /\ before.watcher = 1
    /\ ~before.subs[1].closed
    /\ subs[1].closed
    /\ watcher = 2
    /\ ~subs[2].closed

(***************************************************************************)
(* C10: close() closes the subscription held, if any, and nothing else;    *)
(* while the watcher holds no subscription, no change event invokes a      *)
(* callback or changes the PendingSet.                                     *)
(***************************************************************************)
C10_CloseStopsProcessing ==
    /\ event.type = "close" =>
           /\ watcher = 0
           /\ OpenSubscriptions = {}
           /\ before.watcher = 0 => subs = before.subs
           /\ before.watcher # 0 =>
                  /\ subs[before.watcher].closed
                  /\ \A s \in DOMAIN subs :
                         s # before.watcher => subs[s] = before.subs[s]
           /\ pendingComments = before.pendingComments
           /\ isPaused = before.isPaused
           /\ calls = <<>>
    /\ (ChangeEvent /\ before.watcher = 0) => Dropped

\* After close(), the closed subscription emits a change for a.ts, which
\* holds a trigger, while b.py is pending and the watcher is not paused.
C10_Witness ==
    /\ ChangeEvent
    /\ before.watcher = 0
    /\ subs[event.sub].closed
    /\ ~before.isPaused
    /\ event.path = PathA
    /\ event.read = Some(ContentTrig)
    /\ MapHas(pendingComments, PathB)
    /\ calls = <<>>


(***************************************************************************)
(* C11: clearPending() empties the PendingSet for all files, invokes no    *)
(* callback and leaves the paused flag and the subscription as they were;  *)
(* what it discarded comes back only through a new scan: every entry of    *)
(* the PendingSet is one that was there before the last operation or the   *)
(* scan of the change event just processed, and a trigger delivers only    *)
(* blocks that were pending before it or that its own scan holds.          *)
(***************************************************************************)
C11_ClearPending ==
    /\ event.type = "clearPending" =>
           /\ pendingComments = <<>>
           /\ getPendingComments = <<>>
           /\ calls = <<>>
           /\ isPaused = before.isPaused
           /\ watcher = before.watcher
           /\ subs = before.subs
    /\ \A e \in Range(pendingComments) :
           \/ e \in Range(before.pendingComments)
           \/ Processed /\ e.filePath = event.path /\ e.comments = Scan
    /\ \A k \in DOMAIN calls :
           calls[k].cb = "onAITrigger" =>
               Range(calls[k].comments) \subseteq
                   Range(Flatten(before.pendingComments)) \cup Range(Scan)

\* clearPending() on a paused, subscribed watcher with two files pending.
C11_Witness ==
    /\ event.type = "clearPending"
    /\ Len(before.pendingComments) = 2
    /\ before.isPaused
    /\ before.watcher # 0
    /\ pendingComments = <<>>
    /\ isPaused
    /\ watcher # 0


(***************************************************************************)
(* C12: pause() leaves the watcher paused and resume() leaves it unpaused  *)
(* whatever the flag was before, a new watcher is unpaused, and neither    *)
(* call touches the PendingSet or the subscription nor invokes a callback. *)
(* A pause() or resume() made from inside an onAIComment or onAITrigger    *)
(* callback sets the flag the same way and leaves the handling of the      *)
(* current change event as it would have been without the call; a change   *)
(* event that finds the flag set is dropped.                               *)
(***************************************************************************)
C12_PauseResume ==
    /\ event.type = "new" => ~isPaused
    /\ event.type \in {"pause", "resume"} =>
           /\ isPaused = (event.type = "pause")
           /\ pendingComments = before.pendingComments
           /\ watcher = before.watcher
           /\ subs = before.subs
           /\ calls = <<>>
    /\ ChangeEvent =>
           /\ isPaused = CASE event.inCallback = "pause"  -> TRUE
                           [] event.inCallback = "resume" -> FALSE
                           [] OTHER                       -> before.isPaused
           /\ watcher = before.watcher
           /\ subs = before.subs
           /\ before.isPaused => Dropped
           /\ Processed =>
                  /\ MapGet(pendingComments, event.path) =
                         IF ScanHasTrigger \/ Scan = <<>> THEN <<>> ELSE Scan
                  /\ ScanHasTrigger => Len(CallsOf("onAITrigger")) = 1
                  /\ ~ScanHasTrigger =>
                         /\ CallsOf("onAITrigger") = <<>>
                         /\ OtherEntries(pendingComments, event.path) =
                                OtherEntries(before.pendingComments, event.path)

\* A trigger callback pauses the running watcher from inside the handler.
C12_Witness ==
    /\ Processed
    /\ event.inCallback = "pause"
    /\ Len(CallsOf("onAITrigger")) = 1
    /\ ~before.isPaused
    /\ isPaused


C14_ErrorNonFatal ==
    /\ event.type = "error" =>
           /\ calls = IF Subscribed
                      THEN << [cb |-> "onError", error |-> event.error] >>
                      ELSE <<>>
           /\ pendingComments = before.pendingComments
           /\ isPaused = before.isPaused
           /\ watcher = before.watcher
           /\ subs = before.subs
           /\ Subscribed =>
                  /\ ~subs[watcher].closed
                  /\ FSWatcherDelivers(subs[watcher], "change")
    /\ \A k \in DOMAIN calls : calls[k].cb = "onError" => event.type = "error"

\* An error reported to an unpaused watcher with pending blocks.
C14_Witness ==
    /\ event.type = "error"
    /\ Subscribed
    /\ event.error = "Test error"
    /\ before.pendingComments # <<>>
    /\ ~isPaused
    /\ calls = << [cb |-> "onError", error |-> "Test error"] >>


(***************************************************************************)
(* What the properties of parseCommentsInFile are stated in                *)
(***************************************************************************)

\* The last operation was a call of parseCommentsInFile.
ParseCall == event.type = "parseCommentsInFile"

\* The physical lines of the content given to the call, and its result.
Lines  == SplitLines(event.content)
Blocks == event.result

\* The line numbers at which a maximal run of marker lines starts.
RunStarts ==
    {i \in DOMAIN Lines : IsMarkerLine(Lines[i]) /\ (i = 1 \/ ~IsMarkerLine(Lines[i - 1]))}

\* The number of marker lines in the run that starts at line i.
RunLength(i) ==
    LET last == CHOOSE j \in i..Len(Lines) :
                    /\ \A k \in i..j : IsMarkerLine(Lines[k])
                    /\ j = Len(Lines) \/ ~IsMarkerLine(Lines[j + 1])
    IN  last - i + 1

\* The line numbers block b covers.
Covers(b) == b.lineNumber .. (b.lineNumber + Len(b.rawLines) - 1)

\* The marker lines of the content, by number.
MarkerLineNumbers == {i \in DOMAIN Lines : IsMarkerLine(Lines[i])}

(***************************************************************************)
(* C15: parseCommentsInFile returns exactly one block for every maximal    *)
(* run of N >= 1 consecutive marker lines, with N raw lines and the        *)
(* 1-based number of the run's first line as lineNumber, whether the run   *)
(* ends at a non-marker line or at the end of the content, and no other    *)
(* block; content without marker lines gives the empty list.               *)
(***************************************************************************)
C15_OneBlockPerRun ==
    ParseCall =>
        /\ Len(Blocks) = Cardinality(RunStarts)
        /\ \A i \in RunStarts :
               /\ Cardinality({k \in DOMAIN Blocks : Blocks[k].lineNumber = i}) = 1
               /\ \A k \in DOMAIN Blocks :
                      Blocks[k].lineNumber = i => Len(Blocks[k].rawLines) = RunLength(i)
        /\ \A k \in DOMAIN Blocks : Len(Blocks[k].rawLines) >= 1
        /\ MarkerLineNumbers = {} => Blocks = <<>>

\* A run of two lines ended by a code line, then a run of two lines ended by
\* the end of the content.
C15_Witness ==
    /\ ParseCall
    /\ Len(Lines) = 5
    /\ MarkerLineNumbers = {1, 2, 4, 5}
    /\ Len(Blocks) = 2
    /\ Blocks[1].lineNumber = 1 /\ Len(Blocks[1].rawLines) = 2
    /\ Blocks[2].lineNumber = 4 /\ Len(Blocks[2].rawLines) = 2

(***************************************************************************)
(* C16: parseCommentsInFile never merges marker lines separated by a       *)
(* non-marker line: for consecutive blocks b1, b2 of the result            *)
(* b2.lineNumber > b1.lineNumber + length(b1.rawLines), so lineNumber is   *)
(* strictly increasing, no block covers a non-marker line, and content     *)
(* whose K marker lines are all separated by non-marker lines gives K      *)
(* blocks.                                                                 *)
(***************************************************************************)
C16_NeverMerged ==
    ParseCall =>
        /\ \A k \in 1..(Len(Blocks) - 1) :
               /\ Blocks[k + 1].lineNumber > Blocks[k].lineNumber + Len(Blocks[k].rawLines)
               /\ Blocks[k + 1].lineNumber > Blocks[k].lineNumber
        /\ \A k \in DOMAIN Blocks : Covers(Blocks[k]) \subseteq MarkerLineNumbers
        /\ (\A i \in MarkerLineNumbers : (i + 1) \notin MarkerLineNumbers) =>
               Len(Blocks) = Cardinality(MarkerLineNumbers)

\* Three single marker lines, each separated by a non-marker line.
C16_Witness ==
    /\ ParseCall
    /\ MarkerLineNumbers = {1, 3, 5}
    /\ Len(Blocks) = 3
    /\ [k \in DOMAIN Blocks |-> Blocks[k].lineNumber] = <<1, 3, 5>>

(***************************************************************************)
(* C17: for every block returned by parseCommentsInFile, hasTrigger is     *)
(* true if and only if at least one line the block covers is a trigger     *)
(* line: a block mixing plain and trigger lines is one trigger block, and  *)
(* a trigger line of an earlier block does not make a later block a        *)
(* trigger block.                                                          *)
(***************************************************************************)
C17_TriggerIsOrOfLines ==
    ParseCall =>
        \A k \in DOMAIN Blocks :
            /\ Blocks[k].hasTrigger <=>
                   \E i \in Covers(Blocks[k]) : i \in DOMAIN Lines /\ IsTriggerLine(Lines[i])
            /\ Blocks[k].hasTrigger <=>
                   \E n \in DOMAIN Blocks[k].rawLines : IsTriggerLine(Blocks[k].rawLines[n])

\* A block of a plain line and a trigger line, then a block of a plain line.
C17_Witness ==
    /\ ParseCall
    /\ Len(Blocks) = 2
    /\ Blocks[1].rawLines = <<LineAiX, LineTrig>>
    /\ Blocks[1].hasTrigger
    /\ Blocks[2].rawLines = <<LineAiX>>
    /\ ~Blocks[2].hasTrigger

(***************************************************************************)
(* C18: raw line i (from 0) of every block b returned by                   *)
(* parseCommentsInFile is physical line b.lineNumber + i of the content,   *)
(* unmodified, leading and trailing whitespace kept; every line of a block *)
(* is a marker line and every marker line of the content is covered by     *)
(* exactly one block.                                                      *)
(***************************************************************************)
C18_RawLinesArePhysicalLines ==
    ParseCall =>
        /\ \A k \in DOMAIN Blocks :
               /\ Covers(Blocks[k]) \subseteq DOMAIN Lines
               /\ \A n \in DOMAIN Blocks[k].rawLines :
                      /\ Blocks[k].rawLines[n] = Lines[Blocks[k].lineNumber + n - 1]
                      /\ IsMarkerLine(Blocks[k].rawLines[n])
        /\ \A i \in MarkerLineNumbers :
               Cardinality({k \in DOMAIN Blocks : i \in Covers(Blocks[k])}) = 1

\* A block that holds a line with whitespace on both sides, after a code line.
C18_Witness ==
    /\ ParseCall
    /\ Lines[1] = LineCode
    /\ Len(Blocks) = 1
    /\ Blocks[1].lineNumber = 2
    /\ Blocks[1].rawLines = <<LineIndented, LineAiX>>
    /\ Trim(LineIndented) # LineIndented


(***************************************************************************)
(* What the properties of parseAIComment are stated in                     *)
(***************************************************************************)

\* The last operation was a call of parseAIComment.
LineCall == event.type = "parseAIComment"

\* The line of the call with the marker letters in another capitalisation.
Recased(marker) == LineOf([event.parts EXCEPT !.marker = marker])

\* The line of the call with another character directly after the marker.
WithPunctuation(punct) == LineOf([event.parts EXCEPT !.punct = punct])

\* The line of the call starts with a comment prefix.
CommentLine == PrefixLen(event.parts.prefix) > 0

(***************************************************************************)
(* C19: parseAIComment gives a line the same classification (not a marker, *)
(* marker without trigger, marker with trigger) for every capitalisation   *)
(* of the marker letters (ai, AI, Ai, aI), the rest of the line equal.     *)
(***************************************************************************)
C19_CaseInsensitive ==
    LineCall =>
        \A marker \in MarkerCases : parseAIComment(Recased(marker)) = event.result

\* A trailing trigger written aI!.
C19_Witness ==
    /\ LineCall
    /\ event.parts.marker = <<"a", "I">>
    /\ event.parts.position = "trailing"
    /\ event.parts.text # <<>>
    /\ event.result = Some(TRUE)
    /\ parseAIComment(Recased(<<"A", "i">>)) = Some(TRUE)

PartOfWord ==
    /\ event.parts.text # <<>>
    /\ event.parts.sep = <<>>
    /\ event.parts.position = "leading" =>
           event.parts.bang = <<>> /\ event.parts.punct = <<>>

(***************************************************************************)
(* C21: parseAIComment gives null for a line that does not start with a    *)
(* comment prefix and for a comment line where "ai" stands only as part of *)
(* a longer word.                                                          *)
(***************************************************************************)
C21_TokenOfItsOwn ==
    LineCall =>
        /\ ~CommentLine => event.result = Null
        /\ PartOfWord => event.result = Null

(***************************************************************************)
(* C22: parseAIComment classifies a marker line as a trigger if and only   *)
(* if its marker token, standing as a word of its own, is the ai! variant,  *)
(* whatever the text of the line holds.                                    *)
(***************************************************************************)
C22_TriggerIffTokenHasBang ==
    (LineCall /\ event.result # Null /\ ~PartOfWord) =>
        (event.result = Some(TRUE) <=> event.parts.bang = <<"!">>)


(***************************************************************************)
(* What the properties of createAIMessage are stated in                    *)
(***************************************************************************)

\* The last operation was a call of createAIMessage.
MessageCall == event.type = "createAIMessage"

\* The lines of the message returned.
MessageLines == SplitLines(event.result)

\* "<b.lineNumber + k>: <b.rawLines[k]>" for every block b of comments and
\* every k from 0, in the order of the blocks and of their raw lines.
RECURSIVE ReferenceLines(_)
ReferenceLines(comments) ==
    IF Len(comments) = 0 THEN <<>>
    ELSE LET b == comments[1]
         IN  [n \in DOMAIN b.rawLines |->
                 NumberToString(b.lineNumber + (n - 1)) \o <<":", " ">> \o b.rawLines[n]]
                 \o ReferenceLines(Tail(comments))

\* The elements of a appear in b in the order of a.
RECURSIVE IsSubsequence(_, _)
IsSubsequence(a, b) ==
    IF Len(a) = 0 THEN TRUE
    ELSE IF Len(b) = 0 THEN FALSE
    ELSE IF a[1] = b[1] THEN IsSubsequence(Tail(a), Tail(b))
    ELSE IsSubsequence(a, Tail(b))

\* s without the white space at its end.
TrimEnd(s) ==
    IF AllSpace(s, 1, Len(s)) THEN <<>>
    ELSE Slice(s, 1, CHOOSE k \in 1..Len(s) : ~IsSpace(s[k]) /\ AllSpace(s, k + 1, Len(s)))

\* The reference lines as the final trim leaves them: the last one without
\* the white space at its end.
ReferenceLinesTrimmed(comments) ==
    LET lines == ReferenceLines(comments)
    IN  [n \in DOMAIN lines |-> IF n = Len(lines) THEN TrimEnd(lines[n]) ELSE lines[n]]

\* The files of the blocks, each once, in the order of their first block.
RECURSIVE DistinctFiles(_)
DistinctFiles(comments) ==
    IF Len(comments) = 0 THEN <<>>
    ELSE LET front == DistinctFiles(SubSeq(comments, 1, Len(comments) - 1))
             file  == comments[Len(comments)].filePath
         IN  IF file \in Range(front) THEN front ELSE Append(front, file)

\* The header line of a file.
HeaderLine(filePath) == getRelativePath(filePath, Cwd) \o <<":">>

\* The header lines of the message, in order.
HeaderLines ==
    SelectSeq(MessageLines,
              LAMBDA line : \E k \in DOMAIN event.comments :
                                line = HeaderLine(event.comments[k].filePath))

\* C23 as stated: the message of the empty list is empty, and the message of
\* a non-empty list holds every line "<b.lineNumber + k>: <b.rawLines[k]>",
\* in the order of the blocks and of their raw lines.
C23_EveryRawLineLiteral ==
    MessageCall =>
        IF event.comments = <<>> THEN event.result = <<>>
        ELSE IsSubsequence(ReferenceLines(event.comments), MessageLines)

(***************************************************************************)
(* C23: createAIMessage returns the empty string for the empty list; for   *)
(* a non-empty list the message holds, in the order of the blocks and of   *)
(* their raw lines, the line "<b.lineNumber + k>: <b.rawLines[k]>" for     *)
(* every block b and every k, the last of these lines without the white    *)
(* space at its end, which the final trim removes.                         *)
(***************************************************************************)
C23_NumberedLinesInOrder ==
    MessageCall =>
        IF event.comments = <<>> THEN event.result = <<>>
        ELSE /\ IsSubsequence(ReferenceLinesTrimmed(event.comments), MessageLines)
             /\ MessageLines[Len(MessageLines)] =
                    TrimEnd(ReferenceLines(event.comments)[Len(ReferenceLines(event.comments))])

\* Two blocks, the last from line 9 with two raw lines, the second ending
\* with white space: the message ends with line 10 without that white space.
C23_Witness ==
    /\ MessageCall
    /\ Len(event.comments) = 2
    /\ event.comments[1].rawLines = <<LineAiX>>
    /\ event.comments[2].lineNumber = 9
    /\ event.comments[2].rawLines = <<LineTrig, LineIndented>>
    /\ MessageLines[Len(MessageLines)] = <<"1", "0", ":", " ">> \o TrimEnd(LineIndented)
    /\ TrimEnd(LineIndented) # LineIndented

(***************************************************************************)
(* C24: in the message of createAIMessage each distinct file of the input  *)
(* has exactly one header line "<relative path>:", the headers standing in *)
(* the order in which the files first occur in the input.                  *)
(***************************************************************************)
C24_OneHeaderPerFile ==
    (MessageCall /\ event.comments # <<>>) =>
        HeaderLines = [n \in DOMAIN DistinctFiles(event.comments) |->
                          HeaderLine(DistinctFiles(event.comments)[n])]


(***************************************************************************)
(* C25: watch(), first call or re-entry, leaves the PendingSet as it was:  *)
(* getPendingComments() returns the same blocks after it, no callback is   *)
(* invoked, and a trigger delivered through any subscription carries the   *)
(* blocks pending for the other files before it.                           *)
(***************************************************************************)
C25_WatchKeepsPending ==
    /\ event.type = "watch" =>
           /\ pendingComments = before.pendingComments
           /\ getPendingComments = Flatten(before.pendingComments)
           /\ isPaused = before.isPaused
           /\ calls = <<>>
    /\ (Processed /\ ScanHasTrigger) =>
           \A e \in Range(OtherEntries(before.pendingComments, event.path)) :
               Range(e.comments) \subseteq Range(calls[1].comments)

\* watch() again on a watcher that holds a subscription and pending blocks
\* of two files.
C25_Witness ==
    /\ event.type = "watch"
    /\ before.watcher = 1
    /\ watcher = 2
    /\ Len(before.pendingComments) = 2
    /\ Len(getPendingComments) >= 2

(***************************************************************************)
(* C28: the PendingSet holds only blocks without trigger, every block      *)
(* stored under a path has that path as its filePath, no path is stored    *)
(* twice and no path is mapped to an empty list.                           *)
(***************************************************************************)
C28_PendingSetShape ==
    /\ \A k \in DOMAIN pendingComments :
           /\ pendingComments[k].comments # <<>>
           /\ \A n \in DOMAIN pendingComments[k].comments :
                  /\ ~pendingComments[k].comments[n].hasTrigger
                  /\ pendingComments[k].comments[n].filePath = pendingComments[k].filePath
                  /\ \A line \in Range(pendingComments[k].comments[n].rawLines) :
                         ~IsTriggerLine(line)
    /\ \A j, k \in DOMAIN pendingComments :
           pendingComments[j].filePath = pendingComments[k].filePath => j = k

\* Three files pending, one with two blocks, after a scan that emptied
\* nothing.
C28_Witness ==
    /\ Len(pendingComments) = 3
    /\ \E k \in DOMAIN pendingComments : Len(pendingComments[k].comments) = 2
    /\ Processed
    /\ MapHas(pendingComments, event.path)

(***************************************************************************)
(* C29: one change event never invokes both onAIComment and onAITrigger;   *)
(* when the scan of the changed file holds a trigger block, onAIComment is *)
(* invoked for no block of the file, the non-trigger blocks that stand in  *)
(* the file as blocks of their own included, and nothing of the file is    *)
(* stored in the PendingSet.                                               *)
(***************************************************************************)
C29_TriggerExcludesComment ==
    /\ CallsOf("onAIComment") = <<>> \/ CallsOf("onAITrigger") = <<>>
    /\ (Processed /\ ScanHasTrigger) =>
           /\ CallsOf("onAIComment") = <<>>
           /\ ~MapHas(pendingComments, event.path)
           /\ \A b \in Range(Scan) : b \notin Range(getPendingComments)

\* A file with a non-trigger block followed by a trigger block of its own.
C29_Witness ==
    /\ Processed
    /\ event.read = Some(ContentMixed)
    /\ Len(Scan) = 2
    /\ ~Scan[1].hasTrigger
    /\ Scan[2].hasTrigger
    /\ Len(CallsOf("onAITrigger")) = 1
    /\ CallsOf("onAIComment") = <<>>


AfterTrigger == \E k \in DOMAIN event.previous : event.previous[k].cb = "onAITrigger"

(***************************************************************************)
(* C30: the PendingSet is flushed with the delivery of a trigger, so no    *)
(* pending block is delivered twice: after an onAITrigger the PendingSet   *)
(* is empty, and a trigger that directly follows a trigger carries only    *)
(* the blocks of its own file's scan, none that the first one delivered    *)
(* for another file.                                                       *)
(***************************************************************************)
C30_DeliveredOnce ==
    /\ CallsOf("onAITrigger") # <<>> => pendingComments = <<>>
    /\ (ChangeEvent /\ AfterTrigger) =>
           /\ before.pendingComments = <<>>
           /\ \A k \in DOMAIN calls :
                  calls[k].cb = "onAITrigger" =>
                      /\ calls[k].comments = Scan
                      /\ \A b \in Range(event.previous[1].comments) :
                             b.filePath # event.path => b \notin Range(calls[k].comments)

\* A trigger in c.go directly after a trigger that delivered blocks of two
\* other files.
C30_Witness ==
    /\ Processed
    /\ ScanHasTrigger
    /\ AfterTrigger
    /\ event.path = PathC
    /\ \E b \in Range(event.previous[1].comments) : b.filePath = PathA
    /\ \E b \in Range(event.previous[1].comments) : b.filePath = PathB
    /\ Len(CallsOf("onAITrigger")) = 1
    /\ calls[1].comments = Scan


SessionPaths == {PathA, PathB}
SessionReads == {Null, Some(ContentOne), Some(ContentTrig)}

\* The extension function has run: handlers registered, commentWatcher null.
InitSessions ==
    /\ watcher = 0
    /\ subs = <<>>
    /\ isPaused = FALSE
    /\ pendingComments = <<>>
    /\ calls = <<>>
    /\ before = Snapshot
    /\ event = [type |-> "load", commentWatcher |-> FALSE, earlier |-> <<>>]

\* session_start with the flag set: commentWatcher = new CommentWatcher(..)
\* and watch(cwd) on it; a watcher held before is neither closed nor paused.
session_start ==
    /\ Len(subs) < MaxWatches
    /\ subs' = Append(subs, FSWatcherOn(NewFSWatcher, WatchedEvents))
    /\ watcher' = Len(subs) + 1
    /\ isPaused' = FALSE
    /\ pendingComments' = <<>>
    /\ calls' = <<>>
    /\ before' = Snapshot
    /\ event' = [type |-> "session_start", commentWatcher |-> TRUE,
                 earlier |-> IF event.commentWatcher
                             THEN Append(event.earlier,
                                         [sub |-> watcher, isPaused |-> isPaused,
                                          pendingComments |-> pendingComments])
                             ELSE event.earlier]

\* agent_start: commentWatcher?.pause().
agent_start ==
    /\ isPaused' = IF event.commentWatcher THEN TRUE ELSE isPaused
    /\ calls' = <<>>
    /\ before' = Snapshot
    /\ event' = [type |-> "agent_start", commentWatcher |-> event.commentWatcher,
                 earlier |-> event.earlier]
    /\ UNCHANGED <<watcher, subs, pendingComments>>

\* agent_end: commentWatcher?.resume().
agent_end ==
    /\ isPaused' = IF event.commentWatcher THEN FALSE ELSE isPaused
    /\ calls' = <<>>
    /\ before' = Snapshot
    /\ event' = [type |-> "agent_end", commentWatcher |-> event.commentWatcher,
                 earlier |-> event.earlier]
    /\ UNCHANGED <<watcher, subs, pendingComments>>

\* session_shutdown: close() on commentWatcher, if set, and forget it.
session_shutdown ==
    /\ subs' = IF event.commentWatcher THEN ClosedCurrent ELSE subs
    /\ watcher' = IF event.commentWatcher THEN 0 ELSE watcher
    /\ calls' = <<>>
    /\ before' = Snapshot
    /\ event' = [type |-> "session_shutdown", commentWatcher |-> FALSE,
                 earlier |-> event.earlier]
    /\ UNCHANGED <<isPaused, pendingComments>>

\* The "change" listener of each of the watchers in earlier, for filePath.
EarlierHandled(earlier, filePath, read) ==
    [k \in DOMAIN earlier |->
        IF FSWatcherDelivers(subs[earlier[k].sub], "change")
        THEN handleChange(earlier[k].isPaused, earlier[k].pendingComments,
                          filePath, read)
        ELSE Unhandled(earlier[k].pendingComments)]

\* What the callbacks of index.ts do for the watchers' callbacks, one
\* watcher after the other.
RECURSIVE AllHostCallbacks(_)
AllHostCallbacks(handled) ==
    IF Len(handled) = 0 THEN <<>>
    ELSE HostCallbacks(handled[1].calls) \o AllHostCallbacks(Tail(handled))

\* A file under cwd changes: every notifier that is open emits
\* change(filePath), in the order the notifiers were created, and each
\* reaches the CommentWatcher that registered on it.
FileChange(filePath, read) ==
    LET delivered == watcher # 0 /\ FSWatcherDelivers(subs[watcher], "change")
    IN  \E handled \in {IF delivered
                        THEN handleChange(isPaused, pendingComments, filePath, read)
                        ELSE Unhandled(pendingComments)},
           others \in {EarlierHandled(event.earlier, filePath, read)} :
            /\ pendingComments' = handled.pending
            /\ calls' = AllHostCallbacks(others) \o HostCallbacks(handled.calls)
            /\ before' = Snapshot
            /\ event' = [type |-> "file_change", path |-> filePath, read |-> read,
                         commentWatcher |-> event.commentWatcher,
                         earlier |-> [k \in DOMAIN others |->
                                         [event.earlier[k] EXCEPT
                                             !.pendingComments = others[k].pending]]]
            /\ UNCHANGED <<watcher, subs, isPaused>>

NextSessions ==
    \/ session_start
    \/ agent_start
    \/ agent_end
    \/ session_shutdown
    \/ \E filePath \in SessionPaths, read \in SessionReads : FileChange(filePath, read)

SpecSessions == InitSessions /\ [][NextSessions]_vars

(***************************************************************************)
(* C31: whatever the order of the host events, at most one subscription of *)
(* the extension is open at a time: after a session_start that created a   *)
(* CommentWatcher only its subscription is open, after session_shutdown    *)
(* none is, and one file change leads to at most one pi.sendUserMessage.   *)
(***************************************************************************)
C31_OneSubscriptionOpen ==
    /\ Cardinality(OpenSubscriptions) <= 1
    /\ event.type = "session_start" => OpenSubscriptions = {watcher}
    /\ event.type = "session_shutdown" => OpenSubscriptions = {}
    /\ event.type = "file_change" => Len(calls) <= 1

====
